---- MODULE Spec2Model ----
(***************************************************************************)
(* Step-up authentication of AdvancedAuthService (src/unnamed/part_000):   *)
(* verifyOTP and login, run by concurrent callers whose steps interleave   *)
(* at every await.  A step that touches no shared state (the comparison   *)
(* of the code with the fetched session, the logging of the outcome, the   *)
(* return) is folded into the step before it.                              *)
(*                                                                         *)
(* The control flow of verifyOTP and login is the source's.  The helpers   *)
(* the class calls but does not define (isOTPBlocked, verifyOTPCode,       *)
(* completeRegistration, generateAuthTokens, recordFailedAttempt,          *)
(* isAccountLocked, recordFailedLogin, resetFailedAttempts,                *)
(* initiateTwoFactorAuth) and its storage placeholders                     *)
(* (getVerificationSession, validateCredentials) are modelled from the     *)
(* component contracts of spec.md sections 3, 4.3, 4.4 and 4.6.  The       *)
(* security-event sink and the token issuer do not fail here.              *)
(***************************************************************************)
EXTENDS Integers, Sequences, FiniteSets, TLC

\* ---------------------------------------------------------------- bounds
MaxCalls    == 6    \* verifyOTP calls started in one behaviour
MaxLogins   == 6    \* login calls started in one behaviour
MaxSessions == 1    \* verification sessions created in one behaviour
MaxTime     == 16   \* the clock stops here (minutes)
TickStep    == 16   \* minutes per clock step
MaxEmailLen == 4    \* characters of an e-mail address given to maskEmail
MaxPhoneLen == 9    \* digits of a phone number given to maskPhoneNumber
MaxOps      == 3    \* operations started when they run one at a time
MaxQueue    == 4    \* entries of a WhatsApp message array
MaxRuns     == 2    \* processMessageQueue runs started in one behaviour
MaxVerify   == 3    \* verifyOTP requests the component starts
MaxMails    == 3    \* sendEmail calls made in one behaviour
cpuCount    == 2    \* os.cpus().length of the machine the server runs on
MaxExits    == 3    \* worker exits in one behaviour
MaxElapsed  == 610  \* seconds the OTPVerification component is followed

\* ------------------------------------------------------- program constants
OTP_MIN == 100000   \* crypto.randomInt(100000, 999999): lower end, inclusive
OTP_MAX == 999999   \* upper end, exclusive
OTP_TTL == 10       \* minutes a code lives
MaxAttempts      == 5    \* failed OTP attempts that block a session
LoginThreshold   == 5    \* failed logins that lock an identity
LockoutDuration  == 15   \* minutes an identity stays locked
COUNTDOWN_START  == 600  \* useState(600), setCountdown(600): seconds

SessionIds == 1..(MaxSessions + 1)   \* the last one is never created
Channels   == {"email", "whatsapp"}
Callers    == {"a", "b"}
Identities == {"alice", "bob"}
CodeSample == {99999, 100000, 999998, 999999}
Void       == 0          \* no live code

\* users of the identity store: bob has a second factor configured
twoFactorEnabled == [u \in Identities |-> u = "bob"]

\* generateSessionId(): crypto.randomBytes(32) in hex, any identifier
generateSessionId == SessionIds

\* generateOTP(): the values crypto.randomInt(OTP_MIN, OTP_MAX) can return
generateOTP == {n \in CodeSample : OTP_MIN <= n /\ n < OTP_MAX}

\* ------------------------------------------------ strings, as JavaScript
\* a string is the sequence of its characters
Stars == <<"*", "*", "*">>
Undefined == <<"undefined">>       \* what `${undefined}` prints
EmailChars == {"a", "b", "@"}
PhoneChars == {"1", "2"}
Strings(alphabet, n) == UNION {[1..k -> alphabet] : k \in 0..n}
EmailInputs == Strings(EmailChars, MaxEmailLen)
PhoneInputs == Strings(PhoneChars, MaxPhoneLen)

Min(a, b) == IF a < b THEN a ELSE b
Max(a, b) == IF a > b THEN a ELSE b

\* String.prototype.slice(start, end): negative indices count from the end,
\* both are clamped to the string
slice(s, start, end) ==
    LET from == IF start < 0 THEN Max(Len(s) + start, 0) ELSE Min(start, Len(s))
        to   == IF end < 0 THEN Max(Len(s) + end, 0) ELSE Min(end, Len(s))
    IN IF from < to THEN SubSeq(s, from + 1, to) ELSE <<>>

\* String.prototype.split(sep) for a one-character separator
RECURSIVE split(_, _)
split(s, sep) ==
    IF \A i \in 1..Len(s) : s[i] # sep THEN <<s>>
    ELSE LET i == CHOOSE k \in 1..Len(s) :
                     s[k] = sep /\ \A j \in 1..(k - 1) : s[j] # sep
         IN <<SubSeq(s, 1, i - 1)>> \o split(SubSeq(s, i + 1, Len(s)), sep)

\* Number.prototype.toString() of a natural number
RECURSIVE toString(_)
toString(n) ==
    LET digit == <<"0", "1", "2", "3", "4", "5", "6", "7", "8", "9">>
    IN IF n < 10 THEN <<digit[n + 1]>>
       ELSE toString(n \div 10) \o <<digit[(n % 10) + 1]>>

\* (variant for C18: the last two characters of the local part are shown)
maskEmail_lastTwo(email) ==
    LET parts  == split(email, "@")
        local  == parts[1]
        domain == IF Len(parts) >= 2 THEN parts[2] ELSE Undefined
        first  == IF local = <<>> THEN Undefined ELSE <<local[1]>>
    IN first \o Stars \o slice(local, -2, Len(local)) \o <<"@">> \o domain

\* lines 297-300: const [local, domain] = email.split('@');
\* `${local[0]}***${local.slice(-1)}@${domain}`
maskEmail(email) ==
    LET parts  == split(email, "@")
        local  == parts[1]
        domain == IF Len(parts) >= 2 THEN parts[2] ELSE Undefined
        first  == IF local = <<>> THEN Undefined ELSE <<local[1]>>
    IN first \o Stars \o slice(local, -1, Len(local)) \o <<"@">> \o domain

\* (variant for C19: one more leading digit is shown)
maskPhoneNumber_firstFive(phone) ==
    slice(phone, 0, 5) \o Stars \o slice(phone, -3, Len(phone))

\* lines 302-304: `${phone.slice(0, 4)}***${phone.slice(-3)}`
maskPhoneNumber(phone) ==
    slice(phone, 0, 4) \o Stars \o slice(phone, -3, Len(phone))

\* the e-mail address and the phone number of the users
emailOf == [u \in Identities |->
              IF u = "alice" THEN <<"a", "b", "@", "a">> ELSE <<"b", "@", "b">>]
phoneOf == [u \in Identities |->
              IF u = "alice"
              THEN <<"1", "2", "1", "2", "1", "2", "1", "2", "1">>
              ELSE <<"2", "1", "2", "1", "2">>]

\* logSecurityEvent(eventType, data), lines 306-312: an entry of the
\* security log.  data holds the fields of the payload that carry an
\* address, a phone number, an identifier or a code.
Ev(type, data) == [type |-> type, data |-> data]
Field(name, value) == [field |-> name, value |-> value]

VARIABLES
    now,          \* wall clock, minutes
    status,       \* session store: "NONE" | "PENDING" | "VERIFIED" per sessionId
    expiresAt,    \* session store: createdAt + OTP_TTL
    codes,        \* session store: the live code per channel (Void: none)
    delivered,    \* the code last delivered to the user per channel
    failedAttempts, \* this.failedAttempts: failed OTP attempts per sessionId
    failedLogins, \* this.failedAttempts: failed logins per identifier
    lockedAccounts, \* this.lockedAccounts: lockedUntil per identifier (0: none)
    tokens,       \* token pairs minted by verifyOTP, per sessionId
    vcall,        \* frames of the verifyOTP calls in flight
    ncalls,       \* verifyOTP calls started
    clean,        \* the sessions s such that every verifyOTP call returned so
                  \* far ran on s, found it, overlapped no other call on s
                  \* and carried a wrong code
    lcall,        \* frame of the login call in flight
    nlogins,      \* login calls started
    rcall,        \* the last register call: its user, session and log entries
    scall,        \* frame of the sendEmailOTP / sendWhatsAppOTP call in flight
    gcall,        \* frame of the handleGoogleCallback call in flight
    nops,         \* send and callback calls started
    mask,         \* a call of maskEmail, maskPhoneNumber or generateOTP:
                  \* its argument and, once it has returned, its result
    isConnected,  \* WhatsAppManager.isConnected
    heap,         \* the message arrays: 0 is the constructor's messageQueue,
                  \* r is the failedMessages of processMessageQueue run r
    messageQueue, \* the array this.messageQueue refers to
    prun,         \* frames of the processMessageQueue runs
    nruns,        \* processMessageQueue runs started
    smsg,         \* per message: the sendMessage call that submitted it
    attempts,     \* per message: client.sendMessage calls made for it
    handed,       \* per message: client.sendMessage calls that succeeded
    everQueued,   \* the messages that were ever pushed to messageQueue
    countdown,    \* OTPVerification: the countdown state, seconds
    timer,        \* OTPVerification: the interval of the countdown is set
    isResending,  \* OTPVerification: the isResending state
    verificationStatus, \* OTPVerification: the verificationStatus state
    elapsed,      \* seconds since the component was mounted
    verifyReq,    \* OTPVerification: the verifyOTP requests of handleVerify
                  \* (started, in flight, resolved with success), the
                  \* onVerified timeouts set and fired, and whether a
                  \* request started while the status was 'verifying' or
                  \* 'success'
    transporter,  \* GmailManager.transporter: 0 is null, else the
                  \* transporter createTransport returned
    created,      \* transporters createTransport has returned: 1..created
    verified,     \* the transporters whose verify() has resolved
    ecall,        \* frames of the sendEmail calls: the transporter a call
                  \* made, the one it sent through, and whether that one
                  \* was unverified when sendMail was called
    primary,      \* server.js: the primary has run forkWorkers
    workers,      \* cluster.workers and the workers that have exited: per
                  \* worker id whether it is live, whether a 'message'
                  \* listener is attached, and its WORKER_ID (0: not set)
    nforked,      \* cluster.fork calls made
    nexits,       \* workers that have exited
    wmsg          \* the last message a worker sent to the primary, and
                  \* whether handleWorkerMessage was called for it

vars == <<now, status, expiresAt, codes, delivered, failedAttempts,
          failedLogins, lockedAccounts, tokens, vcall, ncalls, clean,
          lcall, nlogins, rcall, scall, gcall, nops, mask, isConnected,
          heap, messageQueue, prun, nruns, smsg, attempts, handed,
          everQueued, countdown, timer, isResending, verificationStatus,
          elapsed, verifyReq, transporter, created, verified, ecall,
          primary, workers, nforked, nexits, wmsg>>

storeVars == <<status, expiresAt, codes, delivered>>
loginVars == <<failedLogins, lockedAccounts, lcall, nlogins>>
opVars    == <<rcall, scall, gcall, nops>>
waVars    == <<isConnected, heap, messageQueue, prun, nruns, smsg,
               attempts, handed, everQueued>>
uiVars    == <<countdown, timer, isResending, verificationStatus, elapsed,
               verifyReq>>
mailVars  == <<transporter, created, verified, ecall>>
clusterVars == <<primary, workers, nforked, nexits, wmsg>>
extVars   == <<waVars, uiVars, mailVars, clusterVars>>
auxVars   == <<mask, opVars, extVars>>

IdleV == [pc |-> "idle", latest |-> FALSE, sid |-> 1, code |-> Void,
          ch |-> "email",
          snap |-> [c \in Channels |-> Void], err |-> "none",
          look |-> "none", ok |-> FALSE, solo |-> FALSE, pending |-> FALSE,
          late |-> FALSE, expired |-> FALSE, blockedAtCall |-> FALSE,
          blocked |-> FALSE, compared |-> FALSE, recorded |-> FALSE,
          minted |-> FALSE, events |-> <<>>]

IdleL == [pc |-> "idle", id |-> "alice", good |-> FALSE, err |-> "none",
          events |-> <<>>,
          locked |-> FALSE, validated |-> FALSE, minted |-> FALSE,
          session |-> 0]

IdleR == [u |-> "alice", session |-> 0, events |-> <<>>]

IdleS == [pc |-> "idle", to |-> "alice", sid |-> 1, ch |-> "email",
          code |-> Void, prev |-> Void, sentToUser |-> FALSE,
          stored |-> FALSE, err |-> "none", events |-> <<>>]

IdleG == [pc |-> "idle", u |-> "alice", session |-> 0, sessionId |-> 0,
          otpSent |-> FALSE,
          requiresAdditionalAuth |-> FALSE, minted |-> FALSE,
          err |-> "none", events |-> <<>>]

IdleM == [fn |-> "none", input |-> <<>>, output |-> <<>>, done |-> FALSE]

\* the messages submitted to the WhatsApp manager, each once
Msgs == {"m1", "m2"}
RunIds == 1..MaxRuns

IdleP == [pc |-> "idle", arr |-> 0, idx |-> 1, successfulMessages |-> <<>>]

WorkerIds == 1..(cpuCount + MaxExits)
MessageTypes == {"METRICS_UPDATE", "SECURITY_ALERT", "PERFORMANCE_DATA"}
NoWorker == [state |-> "none", handler |-> FALSE, WORKER_ID |-> 0]
NoMessage == [from |-> 0, type |-> "none", handled |-> FALSE]
MailIds == 1..MaxMails
IdleE == [pc |-> "idle", made |-> 0, via |-> 0, unverified |-> FALSE,
          err |-> "none"]
IdleU == [started |-> 0, inFlight |-> 0, succeeded |-> 0, timeouts |-> 0,
          onVerified |-> 0, late |-> FALSE]
IdleW == [pc |-> "new", result |-> "none"]

\* the WhatsApp manager after construction: not connected, nothing queued
InitManager ==
    /\ isConnected = FALSE
    /\ heap = [a \in 0..MaxRuns |-> <<>>]
    /\ messageQueue = 0
    /\ prun = [r \in RunIds |-> IdleP]
    /\ nruns = 0
    /\ smsg = [m \in Msgs |-> IdleW]
    /\ attempts = [m \in Msgs |-> 0]
    /\ handed = [m \in Msgs |-> 0]
    /\ everQueued = {}

\* the OTPVerification component when it is mounted: the countdown starts
\* at ten minutes and its interval is set
InitComponent ==
    /\ countdown = COUNTDOWN_START
    /\ timer = TRUE
    /\ isResending = FALSE
    /\ verificationStatus = "pending"
    /\ elapsed = 0
    /\ verifyReq = IdleU

\* the Gmail manager after construction: no transporter
InitGmail ==
    /\ transporter = 0
    /\ created = 0
    /\ verified = {}
    /\ ecall = [e \in MailIds |-> IdleE]

\* the primary process when the server is constructed: nothing forked
InitCluster ==
    /\ primary = "start"
    /\ workers = [w \in WorkerIds |-> NoWorker]
    /\ nforked = 0
    /\ nexits = 0
    /\ wmsg = NoMessage

\* the service after construction, no call made yet
InitService ==
    /\ rcall = IdleR
    /\ scall = IdleS
    /\ gcall = IdleG
    /\ nops = 0
    /\ now = 0
    /\ status = [s \in SessionIds |-> "NONE"]
    /\ expiresAt = [s \in SessionIds |-> 0]
    /\ codes = [s \in SessionIds |-> [c \in Channels |-> Void]]
    /\ delivered = [s \in SessionIds |-> [c \in Channels |-> Void]]
    /\ failedAttempts = [s \in SessionIds |-> 0]
    /\ failedLogins = [u \in Identities |-> 0]
    /\ lockedAccounts = [u \in Identities |-> 0]
    /\ tokens = [s \in SessionIds |-> 0]
    /\ vcall = [c \in Callers |-> IdleV]
    /\ ncalls = 0
    /\ clean = SessionIds
    /\ lcall = IdleL
    /\ nlogins = 0
    /\ InitManager
    /\ InitComponent
    /\ InitGmail
    /\ InitCluster

Init == InitService /\ mask = IdleM

\* ------------------------------------------------------------- the clock
Tick ==
    /\ now < MaxTime
    /\ now' = now + TickStep
    /\ UNCHANGED <<auxVars, storeVars, failedAttempts, tokens, vcall, ncalls,
                   clean, loginVars>>

\* ------------------------------------------------- helpers (spec-modelled)
\* (variant for C7: the lookup does not look at expiresAt)
getVerificationSession_noExpiry(sid) ==
    IF status[sid] = "NONE" THEN "notfound" ELSE "ok"

\* Session Store.get: unknown -> not found, now > expiresAt -> SessionExpired
getVerificationSession(sid) ==
    IF status[sid] = "NONE" THEN "notfound"
    ELSE IF now > expiresAt[sid] THEN "expired"
    ELSE "ok"

\* Attempt Tracker.isOtpBlocked: the session has used up its attempts
isOTPBlocked(sid) == failedAttempts[sid] >= MaxAttempts

\* hash-and-compare of the candidate against the session's code of the channel
verifyOTPCode(session, otpCode, channel) ==
    session[channel] # Void /\ session[channel] = otpCode

\* Session Store.update to VERIFIED: only a PENDING session can be completed
canComplete(sid) == status[sid] = "PENDING"

\* Attempt Tracker.recordOtpFailure: one atomic increment per call
recordFailedAttempt(sid) == [failedAttempts EXCEPT ![sid] = @ + 1]

\* ------------------------------------------------------------- register
\* register(userData): a new PENDING session with one delivered code per
\* channel; lines 43-49: REGISTRATION_ATTEMPT is logged with userId,
\* userData.email, userData.phone and the ip address
register(u, sid, ce, cw) ==
    /\ sid <= MaxSessions
    /\ sid = Cardinality({s \in SessionIds : status[s] # "NONE"}) + 1
    /\ status' = [status EXCEPT ![sid] = "PENDING"]
    /\ expiresAt' = [expiresAt EXCEPT ![sid] = now + OTP_TTL]
    /\ codes' = [codes EXCEPT ![sid] = [email |-> ce, whatsapp |-> cw]]
    /\ delivered' = [delivered EXCEPT ![sid] = [email |-> ce, whatsapp |-> cw]]
    /\ rcall' = [u |-> u, session |-> sid,
                 events |-> <<Ev("REGISTRATION_ATTEMPT",
                                 {Field("email", emailOf[u]),
                                  Field("phone", phoneOf[u])})>>]
    /\ UNCHANGED <<mask, extVars, scall, gcall, nops, now, failedAttempts, tokens,
                   vcall, ncalls, clean, loginVars>>

\* ------------------------------------------------------------ verifyOTP
InFlight(c) == vcall[c].pc \notin {"idle", "done"}

\* (variant for C17: the error is rethrown without a log entry)
Thrown_silent(f, err) == [f EXCEPT !.pc = "done", !.err = err]

\* lines 107-114, the catch block: OTP_VERIFICATION_FAILED is logged with
\* sessionId, channel and error.message, and the error is rethrown
Thrown(f, err) ==
    [f EXCEPT !.pc = "done", !.err = err,
              !.events = Append(@, Ev("OTP_VERIFICATION_FAILED", {}))]

\* line 69: verifyOTP(sessionId, otpCode, channel) is called
VerifyStart(c, sid, code, ch) ==
    /\ vcall[c].pc = "idle"
    /\ c = "b" => vcall["a"].pc # "idle"     \* frames are taken in order
    /\ ncalls < MaxCalls
    /\ ncalls' = ncalls + 1
    /\ LET others == {d \in Callers \ {c} : InFlight(d) /\ vcall[d].sid = sid}
           f == [IdleV EXCEPT !.pc = "get", !.latest = TRUE, !.sid = sid,
                    !.code = code, !.ch = ch,
                    !.ok = delivered[sid][ch] = code,
                    !.solo = others = {},
                    !.pending = status[sid] = "PENDING",
                    !.late = status[sid] = "VERIFIED"
                             /\ \A d \in others :
                                   vcall[d].pc # "tokens",
                    !.expired = status[sid] # "NONE" /\ now > expiresAt[sid],
                    !.blockedAtCall = failedAttempts[sid] >= MaxAttempts]
       IN vcall' = [d \in Callers |->
                      IF d = c THEN f
                      ELSE IF d \in others
                           THEN [vcall[d] EXCEPT !.solo = FALSE,
                                                 !.latest = FALSE]
                      ELSE [vcall[d] EXCEPT !.latest = FALSE]]
    /\ UNCHANGED <<auxVars, now, storeVars, failedAttempts, tokens, clean, loginVars>>

\* (variant for C8: the result of the lookup is used without the null check)
VerifyGetSession_noNullCheck(c) ==
    /\ vcall[c].pc = "get"
    /\ LET sid == vcall[c].sid
           got == getVerificationSession(sid)
           f == [vcall[c] EXCEPT !.look = got]
       IN vcall' = [vcall EXCEPT ![c] =
             IF got = "expired"
             THEN Thrown([f EXCEPT !.code = Void, !.ch = IdleV.ch],
                         "SessionExpired")
             ELSE [f EXCEPT !.pc = "checkBlocked", !.snap = codes[sid]]]
    /\ UNCHANGED <<auxVars, now, storeVars, failedAttempts, tokens, ncalls, clean,
                   loginVars>>

\* lines 72-75 (and the catch block, 107-114): the session is fetched; a
\* missing one is rejected, a failed lookup is rethrown
VerifyGetSession(c) ==
    /\ vcall[c].pc = "get"
    /\ LET sid == vcall[c].sid
           got == getVerificationSession(sid)
           f == [vcall[c] EXCEPT !.look = got]
       IN vcall' = [vcall EXCEPT ![c] =
             IF got = "notfound"
             THEN Thrown([f EXCEPT !.code = Void, !.ch = IdleV.ch],
                         "InvalidSession")
             ELSE IF got = "expired"
             THEN Thrown([f EXCEPT !.code = Void, !.ch = IdleV.ch],
                         "SessionExpired")
             ELSE [f EXCEPT !.pc = "checkBlocked", !.snap = codes[sid]]]
    /\ UNCHANGED <<auxVars, now, storeVars, failedAttempts, tokens, ncalls, clean,
                   loginVars>>

\* (variant for C3: the code is compared without asking isOTPBlocked)
VerifyCheckBlocked_unchecked(c) ==
    /\ vcall[c].pc = "checkBlocked"
    /\ vcall' = [vcall EXCEPT ![c].snap = IdleV.snap, ![c].code = Void,
                              ![c].ch = IdleV.ch, ![c].compared = TRUE,
                              ![c].pc =
                     IF verifyOTPCode(vcall[c].snap, vcall[c].code, vcall[c].ch)
                     THEN "complete" ELSE "record"]
    /\ UNCHANGED <<auxVars, now, storeVars, failedAttempts, tokens, ncalls, clean,
                   loginVars>>

\* lines 77-85: a blocked session is rejected before the code is looked at;
\* otherwise isValid = verifyOTPCode(session, otpCode, channel) is computed
\* from the fetched session and selects the branch
VerifyCheckBlocked(c) ==
    /\ vcall[c].pc = "checkBlocked"
    /\ LET f == [vcall[c] EXCEPT !.snap = IdleV.snap, !.code = Void,
                                 !.ch = IdleV.ch]
       IN vcall' = [vcall EXCEPT ![c] =
             IF isOTPBlocked(vcall[c].sid)
             THEN Thrown([f EXCEPT !.blocked = TRUE], "TooManyAttempts")
             ELSE [f EXCEPT !.compared = TRUE, !.pc =
                     IF verifyOTPCode(vcall[c].snap, vcall[c].code, vcall[c].ch)
                     THEN "complete" ELSE "record"]]
    /\ UNCHANGED <<auxVars, now, storeVars, failedAttempts, tokens, ncalls, clean,
                   loginVars>>

\* line 87: completeRegistration(session): the session becomes VERIFIED and
\* its codes void; a session that is no longer PENDING refuses the mutation
VerifyComplete(c) ==
    /\ vcall[c].pc = "complete"
    /\ IF canComplete(vcall[c].sid)
       THEN /\ status' = [status EXCEPT ![vcall[c].sid] = "VERIFIED"]
            /\ codes' = [codes EXCEPT ![vcall[c].sid] = [x \in Channels |-> Void]]
            /\ vcall' = [vcall EXCEPT ![c].pc = "tokens"]
       ELSE /\ vcall' = [vcall EXCEPT ![c] =
                              Thrown(vcall[c], "SessionAlreadyTerminal")]
            /\ UNCHANGED <<status, codes>>
    /\ UNCHANGED <<auxVars, now, expiresAt, delivered, failedAttempts, tokens,
                   ncalls, clean, loginVars>>

\* lines 89-101: generateAuthTokens(session.userId), REGISTRATION_COMPLETED
\* is logged, the tokens and the profile are returned
VerifyTokens(c) ==
    /\ vcall[c].pc = "tokens"
    /\ tokens' = [tokens EXCEPT ![vcall[c].sid] = @ + 1]
    /\ vcall' = [vcall EXCEPT ![c].pc = "done", ![c].minted = TRUE,
                              ![c].err = "Success",
                              ![c].events =
                                 Append(@, Ev("REGISTRATION_COMPLETED", {}))]
    /\ UNCHANGED <<auxVars, now, storeVars, failedAttempts, ncalls, clean, loginVars>>

\* (variant for C5: 'Invalid OTP code' is thrown, the attempt not recorded)
VerifyRecordFailed_uncounted(c) ==
    /\ vcall[c].pc = "record"
    /\ vcall' = [vcall EXCEPT ![c] = Thrown(vcall[c], "InvalidOTP")]
    /\ UNCHANGED <<auxVars, now, storeVars, failedAttempts, tokens, ncalls, clean,
                   loginVars>>

\* lines 102-105: the failed attempt is recorded, 'Invalid OTP code' thrown
VerifyRecordFailed(c) ==
    /\ vcall[c].pc = "record"
    /\ failedAttempts' = recordFailedAttempt(vcall[c].sid)
    /\ vcall' = [vcall EXCEPT ![c] =
                    Thrown([vcall[c] EXCEPT !.recorded = TRUE], "InvalidOTP")]
    /\ UNCHANGED <<auxVars, now, storeVars, tokens, ncalls, clean, loginVars>>

\* the caller has its result; the frame is free for the next call
VerifyDone(c) ==
    /\ vcall[c].pc = "done"
    /\ clean' = IF /\ vcall[c].solo
                   /\ ~vcall[c].ok
                   /\ vcall[c].err \in {"InvalidOTP", "TooManyAttempts"}
                THEN clean \cap {vcall[c].sid} ELSE {}
    /\ vcall' = [vcall EXCEPT ![c] = IdleV]
    /\ UNCHANGED <<auxVars, now, storeVars, failedAttempts, tokens, ncalls, loginVars>>

\* ---------------------------------------------------- login helpers
\* Attempt Tracker.isLoginLocked: true while now < lockedUntil
isAccountLocked(id) == now < lockedAccounts[id]

\* the credential check against the identity store
validateCredentials(id, good) == good

\* (variant for C10: the second factor is never asked for)
requiresTwoFactor_never(id) == FALSE

\* line 128: user.twoFactorEnabled
requiresTwoFactor(id) == twoFactorEnabled[id]

\* Attempt Tracker.recordLoginFailure: counts, and locks at the threshold
recordFailedLogin(id) ==
    /\ failedLogins' = [failedLogins EXCEPT ![id] = @ + 1]
    /\ lockedAccounts' =
          IF failedLogins[id] + 1 >= LoginThreshold
          THEN [lockedAccounts EXCEPT ![id] = now + LockoutDuration]
          ELSE lockedAccounts

\* Attempt Tracker.reset(identity)
resetFailedAttempts(id) == [failedLogins EXCEPT ![id] = 0]

\* --------------------------------------------------------------- login
\* (variant for C9: the credentials are validated whatever the lock says)
LoginCheckLocked_unchecked(id, good) ==
    /\ lcall.pc = "idle"
    /\ nlogins < MaxLogins
    /\ nlogins' = nlogins + 1
    /\ lcall' = [IdleL EXCEPT !.id = id, !.good = good, !.pc = "validate",
                              !.locked = isAccountLocked(id)]
    /\ UNCHANGED <<auxVars, now, storeVars, failedAttempts, tokens, vcall, ncalls,
                   clean, failedLogins, lockedAccounts>>

\* lines 117-122: the call starts; a locked account is rejected at once
LoginCheckLocked(id, good) ==
    /\ lcall.pc = "idle"
    /\ nlogins < MaxLogins
    /\ nlogins' = nlogins + 1
    /\ lcall' = IF isAccountLocked(id)
                THEN [IdleL EXCEPT !.id = id, !.good = good, !.locked = TRUE,
                                   !.pc = "catch", !.err = "AccountLocked"]
                ELSE [IdleL EXCEPT !.id = id, !.good = good,
                                   !.pc = "validate"]
    /\ UNCHANGED <<auxVars, now, storeVars, failedAttempts, tokens, vcall, ncalls,
                   clean, failedLogins, lockedAccounts>>

\* lines 124-130: validateCredentials, then the second-factor branch
LoginValidate ==
    /\ lcall.pc = "validate"
    /\ lcall' = IF ~validateCredentials(lcall.id, lcall.good)
                THEN [lcall EXCEPT !.pc = "catch", !.err = "InvalidCredentials",
                                   !.good = FALSE]
                ELSE [lcall EXCEPT !.validated = TRUE, !.good = FALSE, !.pc =
                        IF requiresTwoFactor(lcall.id) THEN "twofactor"
                        ELSE "tokens"]
    /\ UNCHANGED <<auxVars, now, storeVars, failedAttempts, tokens, vcall, ncalls,
                   clean, failedLogins, lockedAccounts, nlogins>>

\* line 129: return await initiateTwoFactorAuth(user): a verification
\* session is created for the user and its codes are delivered
LoginTwoFactor(sid, ce, cw) ==
    /\ lcall.pc = "twofactor"
    /\ sid <= MaxSessions
    /\ sid = Cardinality({s \in SessionIds : status[s] # "NONE"}) + 1
    /\ status' = [status EXCEPT ![sid] = "PENDING"]
    /\ expiresAt' = [expiresAt EXCEPT ![sid] = now + OTP_TTL]
    /\ codes' = [codes EXCEPT ![sid] = [email |-> ce, whatsapp |-> cw]]
    /\ delivered' = [delivered EXCEPT ![sid] = [email |-> ce, whatsapp |-> cw]]
    /\ lcall' = [lcall EXCEPT !.pc = "done", !.err = "TwoFactorStarted",
                              !.session = sid,
                              !.events = Append(@, Ev("TWO_FACTOR_INITIATED",
                                 {Field("email",
                                        maskEmail(emailOf[lcall.id]))}))]
    /\ UNCHANGED <<auxVars, now, failedAttempts, tokens, vcall, ncalls, clean,
                   failedLogins, lockedAccounts, nlogins>>

\* line 133: generateAuthTokens(user.id)
LoginTokens ==
    /\ lcall.pc = "tokens"
    /\ lcall' = [lcall EXCEPT !.pc = "reset", !.minted = TRUE]
    /\ UNCHANGED <<auxVars, now, storeVars, failedAttempts, tokens, vcall, ncalls,
                   clean, failedLogins, lockedAccounts, nlogins>>

\* lines 135-147: resetFailedAttempts(identifier), LOGIN_SUCCESS is logged,
\* with userId and method, the tokens and the profile are returned
LoginReset ==
    /\ lcall.pc = "reset"
    /\ failedLogins' = resetFailedAttempts(lcall.id)
    /\ lcall' = [lcall EXCEPT !.pc = "done", !.err = "Success",
                              !.events = Append(@, Ev("LOGIN_SUCCESS", {}))]
    /\ UNCHANGED <<auxVars, now, storeVars, failedAttempts, tokens, vcall, ncalls,
                   clean, lockedAccounts, nlogins>>

\* (variant for C11: the error is rethrown without recording the failure)
LoginCatch_unrecorded ==
    /\ lcall.pc = "catch"
    /\ lcall' = [lcall EXCEPT !.pc = "done"]
    /\ UNCHANGED <<auxVars, now, storeVars, failedAttempts, tokens, vcall, ncalls,
                   clean, failedLogins, lockedAccounts, nlogins>>

\* lines 149-157: whatever was thrown, a failed login is recorded,
\* LOGIN_FAILED is logged with credentials.identifier, error.message and
\* method, and the error rethrown
LoginCatch ==
    /\ lcall.pc = "catch"
    /\ recordFailedLogin(lcall.id)
    /\ lcall' = [lcall EXCEPT !.pc = "done",
                              !.events = Append(@, Ev("LOGIN_FAILED",
                                 {Field("identifier", emailOf[lcall.id])}))]
    /\ UNCHANGED <<auxVars, now, storeVars, failedAttempts, tokens, vcall, ncalls,
                   clean, nlogins>>

\* the caller has its result; the frame is free for the next call
LoginDone ==
    /\ lcall.pc = "done"
    /\ lcall' = IdleL
    /\ UNCHANGED <<auxVars, now, storeVars, failedAttempts, tokens, vcall, ncalls,
                   clean, failedLogins, lockedAccounts, nlogins>>

\* ---------------------------------------- sendEmailOTP, sendWhatsAppOTP
\* the masked destination that the log entries of a send carry:
\* lines 269-272, 276-279 (e-mail) and 232-235, 239-242 (WhatsApp)
maskedDestination(u, ch) ==
    IF ch = "email" THEN Field("email", maskEmail(emailOf[u]))
    ELSE Field("phoneNumber", maskPhoneNumber(phoneOf[u]))

\* the catch blocks, lines 275-281 and 238-244: EMAIL_OTP_FAILED or
\* WHATSAPP_OTP_FAILED is logged and the error rethrown
SendThrown(f, err) ==
    [f EXCEPT !.pc = "done", !.err = err, !.code = Void,
              !.events = Append(@,
                 Ev(IF f.ch = "email" THEN "EMAIL_OTP_FAILED"
                    ELSE "WHATSAPP_OTP_FAILED",
                    {maskedDestination(f.to, f.ch)}))]

\* Session Store.update of a session's code: only a live PENDING session
\* takes a new code
storeOTP(sid) ==
    IF status[sid] = "NONE" THEN "SessionNotFound"
    ELSE IF now > expiresAt[sid] THEN "SessionExpired"
    ELSE IF status[sid] # "PENDING" THEN "SessionAlreadyTerminal"
    ELSE "ok"

\* lines 215-221 and 247-258: a code is generated and sent to the user,
\* unless the transport fails
SendOTP(u, sid, ch, sent) ==
    /\ scall.pc = "idle"
    /\ nops < MaxOps
    /\ nops' = nops + 1
    /\ \E n \in generateOTP :
          IF sent
          THEN /\ delivered' = [delivered EXCEPT ![sid][ch] = n]
               /\ scall' = [IdleS EXCEPT !.pc = "admin", !.to = u, !.sid = sid,
                                         !.ch = ch, !.code = n,
                                         !.sentToUser = TRUE]
          ELSE /\ scall' = SendThrown([IdleS EXCEPT !.to = u, !.sid = sid,
                                                    !.ch = ch],
                                      "ChannelUnavailable")
               /\ UNCHANGED delivered
    /\ UNCHANGED <<mask, extVars, rcall, gcall, now, status, expiresAt, codes,
                   failedAttempts, tokens, vcall, ncalls, clean, loginVars>>

\* lines 223-227 and 260-264: the notification to the admin
SendAdminCopy(sent) ==
    /\ scall.pc = "admin"
    /\ scall' = IF sent THEN [scall EXCEPT !.pc = "store"]
                ELSE SendThrown(scall, "ChannelUnavailable")
    /\ UNCHANGED <<mask, extVars, rcall, gcall, nops, now, storeVars, failedAttempts,
                   tokens, vcall, ncalls, clean, loginVars>>

\* (variant for C13: the new code is not stored, the old one stays live)
SendStore_notStored ==
    /\ scall.pc = "store"
    /\ scall' = [scall EXCEPT !.pc = "done", !.err = "Success",
                              !.prev = codes[scall.sid][scall.ch],
                              !.stored = TRUE,
                              !.events = Append(@,
                                 Ev(IF scall.ch = "email" THEN "EMAIL_OTP_SENT"
                                    ELSE "WHATSAPP_OTP_SENT",
                                    {maskedDestination(scall.to, scall.ch)}))]
    /\ UNCHANGED <<mask, extVars, rcall, gcall, nops, now, storeVars, failedAttempts,
                   tokens, vcall, ncalls, clean, loginVars>>

\* lines 229-237 and 266-274: storeOTP(sessionId, identifier, otpCode,
\* channel) replaces the channel's code, EMAIL_OTP_SENT or
\* WHATSAPP_OTP_SENT is logged with the masked destination and the
\* sessionId, { success: true } is returned
SendStore ==
    /\ scall.pc = "store"
    /\ IF storeOTP(scall.sid) = "ok"
       THEN /\ codes' = [codes EXCEPT ![scall.sid][scall.ch] = scall.code]
            /\ scall' = [scall EXCEPT !.pc = "done", !.err = "Success",
                              !.prev = codes[scall.sid][scall.ch],
                              !.stored = TRUE,
                              !.events = Append(@,
                                 Ev(IF scall.ch = "email" THEN "EMAIL_OTP_SENT"
                                    ELSE "WHATSAPP_OTP_SENT",
                                    {maskedDestination(scall.to, scall.ch)}))]
       ELSE /\ scall' = SendThrown(scall, storeOTP(scall.sid))
            /\ UNCHANGED codes
    /\ UNCHANGED <<mask, extVars, rcall, gcall, nops, now, status, expiresAt,
                   delivered, failedAttempts, tokens, vcall, ncalls, clean,
                   loginVars>>

\* the caller has its result; the frame is free for the next call
SendDone ==
    /\ scall.pc = "done"
    /\ scall' = IdleS
    /\ UNCHANGED <<mask, extVars, rcall, gcall, nops, now, storeVars, failedAttempts,
                   tokens, vcall, ncalls, clean, loginVars>>

\* -------------------------------------------------- handleGoogleCallback
\* lines 181-187 and the catch block, 207-212: the code is exchanged, the
\* profile fetched and the user found or created; a failure is logged as
\* GOOGLE_AUTH_CALLBACK_FAILED with error.message and rethrown
GoogleExchange(u, valid) ==
    /\ gcall.pc = "idle"
    /\ nops < MaxOps
    /\ nops' = nops + 1
    /\ \E s \in SessionIds : s <= MaxSessions /\ status[s] = "NONE"
    /\ gcall' = IF valid THEN [IdleG EXCEPT !.pc = "additional", !.u = u]
                ELSE [IdleG EXCEPT !.pc = "done", !.u = u,
                         !.err = "ExchangeFailed",
                         !.events = Append(@,
                            Ev("GOOGLE_AUTH_CALLBACK_FAILED", {}))]
    /\ UNCHANGED <<mask, extVars, rcall, scall, now, storeVars, failedAttempts,
                   tokens, vcall, ncalls, clean, loginVars>>

\* (variant for C12: the identity-provider proof is enough, tokens are
\* issued and no code is sent)
GoogleSendAdditional_tokens(sid, ce) ==
    /\ gcall.pc = "additional"
    /\ sid <= MaxSessions
    /\ sid = Cardinality({s \in SessionIds : status[s] # "NONE"}) + 1
    /\ gcall' = [gcall EXCEPT !.pc = "done", !.err = "Success",
                              !.minted = TRUE,
                              !.events = Append(@, Ev("GOOGLE_AUTH_COMPLETED",
                                 {Field("email", emailOf[gcall.u])}))]
    /\ UNCHANGED <<mask, extVars, rcall, scall, nops, now, storeVars, failedAttempts,
                   tokens, vcall, ncalls, clean, loginVars>>

\* lines 189-206: sendAdditionalVerification(user) opens a verification
\* session for the user and delivers a code to the e-mail address of the
\* profile (what it returns is dropped); GOOGLE_AUTH_COMPLETED is logged
\* with user.id and userInfo.email; the result asks for the additional
\* step, carries no tokens, and its sessionId is a new generateSessionId()
GoogleSendAdditional(sid, ce) ==
    /\ gcall.pc = "additional"
    /\ sid <= MaxSessions
    /\ sid = Cardinality({s \in SessionIds : status[s] # "NONE"}) + 1
    /\ status' = [status EXCEPT ![sid] = "PENDING"]
    /\ expiresAt' = [expiresAt EXCEPT ![sid] = now + OTP_TTL]
    /\ codes' = [codes EXCEPT ![sid] = [email |-> ce, whatsapp |-> Void]]
    /\ delivered' = [delivered EXCEPT ![sid] =
                                      [email |-> ce, whatsapp |-> Void]]
    /\ \E h \in generateSessionId :
          gcall' = [gcall EXCEPT !.pc = "done", !.err = "Success",
                              !.session = sid, !.otpSent = TRUE,
                              !.requiresAdditionalAuth = TRUE,
                              !.sessionId = h,
                              !.events = Append(@, Ev("GOOGLE_AUTH_COMPLETED",
                                 {Field("email", emailOf[gcall.u])}))]
    /\ UNCHANGED <<mask, extVars, rcall, scall, nops, now, failedAttempts, tokens,
                   vcall, ncalls, clean, loginVars>>

\* the caller has its result; the frame is free for the next call
GoogleDone ==
    /\ gcall.pc = "done"
    /\ gcall' = IdleG
    /\ UNCHANGED <<mask, extVars, rcall, scall, nops, now, storeVars, failedAttempts,
                   tokens, vcall, ncalls, clean, loginVars>>

\* --------------------------------------------- failures of collaborators
\* line 90: generateAuthTokens throws (the signing key is unavailable);
\* the catch block logs and rethrows
VerifyTokensFail(c) ==
    /\ vcall[c].pc = "tokens"
    /\ vcall' = [vcall EXCEPT ![c] = Thrown(vcall[c], "SigningKeyUnavailable")]
    /\ UNCHANGED <<auxVars, now, storeVars, failedAttempts, tokens, ncalls,
                   clean, loginVars>>

\* line 133: generateAuthTokens throws in login, after the credentials
\* were validated; the catch block runs
LoginTokensFail ==
    /\ lcall.pc = "tokens"
    /\ lcall' = [lcall EXCEPT !.pc = "catch", !.err = "SigningKeyUnavailable"]
    /\ UNCHANGED <<auxVars, now, storeVars, failedAttempts, tokens, vcall,
                   ncalls, clean, failedLogins, lockedAccounts, nlogins>>

\* sendWhatsAppOTP lines 215-221 over WhatsAppManager.sendOTP (lines
\* 120-127 of whatsapp.manager.js) while the client is not connected:
\* sendMessage queues the message and returns { queued: true } (lines
\* 92-96), nothing is delivered and nothing is thrown
SendOTPQueued(u, sid) ==
    /\ scall.pc = "idle"
    /\ nops < MaxOps
    /\ nops' = nops + 1
    /\ \E n \in generateOTP :
          scall' = [IdleS EXCEPT !.pc = "admin", !.to = u, !.sid = sid,
                                 !.ch = "whatsapp", !.code = n]
    /\ UNCHANGED <<mask, extVars, rcall, gcall, now, storeVars,
                   failedAttempts, tokens, vcall, ncalls, clean, loginVars>>

\* lines 90-95 and 306-312: the tokens are generated, then eventBus.emit
\* throws inside logSecurityEvent('REGISTRATION_COMPLETED'); the catch
\* block logs OTP_VERIFICATION_FAILED (unless emit throws again) and the
\* call throws
VerifyEmitFail(c, again) ==
    /\ vcall[c].pc = "tokens"
    /\ tokens' = [tokens EXCEPT ![vcall[c].sid] = @ + 1]
    /\ vcall' = [vcall EXCEPT ![c] =
          IF again
          THEN [vcall[c] EXCEPT !.pc = "done", !.minted = TRUE,
                                !.err = "EmitFailed"]
          ELSE Thrown([vcall[c] EXCEPT !.minted = TRUE], "EmitFailed")]
    /\ UNCHANGED <<auxVars, now, storeVars, failedAttempts, ncalls, clean,
                   loginVars>>

\* lines 229-244 and 266-281: the code is stored, then eventBus.emit throws
\* inside logSecurityEvent of the SENT entry; the catch block logs the
\* FAILED entry (unless emit throws again) and the call throws
SendEmitFail(again) ==
    /\ scall.pc = "store"
    /\ storeOTP(scall.sid) = "ok"
    /\ codes' = [codes EXCEPT ![scall.sid][scall.ch] = scall.code]
    /\ scall' = IF again
                THEN [scall EXCEPT !.pc = "done", !.stored = TRUE,
                                   !.err = "EmitFailed"]
                ELSE [SendThrown([scall EXCEPT !.stored = TRUE], "EmitFailed")
                        EXCEPT !.code = scall.code]
    /\ UNCHANGED <<mask, extVars, rcall, gcall, nops, now, status, expiresAt,
                   delivered, failedAttempts, tokens, vcall, ncalls, clean,
                   loginVars>>

\* ---------------------------------------------------- WhatsAppManager
\* what the actions of the manager leave alone
coreVars == <<now, storeVars, failedAttempts, tokens, vcall, ncalls, clean,
              loginVars, mask, opVars>>
svcVars == <<coreVars, mailVars, clusterVars>>

\* no processMessageQueue run is between two awaits: a run that has the
\* result of client.sendMessage goes on to its next await (or its end)
\* before any event handler or other call runs
NoMicrotask == \A r \in RunIds : prun[r].pc # "next"

\* lines 84-99: sendMessage(to, content, options) called from outside the
\* manager for message m; not connected, the message is pushed to
\* messageQueue and { queued: true } returned; connected,
\* client.sendMessage is called and awaited
sendMessage(m) ==
    /\ NoMicrotask
    /\ smsg[m].pc = "new"
    /\ IF ~isConnected
       THEN /\ Len(heap[messageQueue]) < MaxQueue
            /\ heap' = [heap EXCEPT ![messageQueue] = Append(@, m)]
            /\ everQueued' = everQueued \cup {m}
            /\ smsg' = [smsg EXCEPT ![m] = [pc |-> "done",
                                            result |-> "queued"]]
            /\ UNCHANGED attempts
       ELSE /\ attempts' = [attempts EXCEPT ![m] = @ + 1]
            /\ smsg' = [smsg EXCEPT ![m].pc = "sending"]
            /\ UNCHANGED <<heap, everQueued>>
    /\ UNCHANGED <<isConnected, messageQueue, prun, nruns, handed, svcVars,
                   uiVars>>

\* lines 99-117: client.sendMessage has resolved (success returned) or
\* rejected (the message is pushed to messageQueue for a retry and the
\* error rethrown)
SendMessageResult(m, ok) ==
    /\ NoMicrotask
    /\ smsg[m].pc = "sending"
    /\ IF ok
       THEN /\ handed' = [handed EXCEPT ![m] = @ + 1]
            /\ smsg' = [smsg EXCEPT ![m] = [pc |-> "done",
                                            result |-> "success"]]
            /\ UNCHANGED <<heap, everQueued>>
       ELSE /\ Len(heap[messageQueue]) < MaxQueue
            /\ heap' = [heap EXCEPT ![messageQueue] = Append(@, m)]
            /\ everQueued' = everQueued \cup {m}
            /\ smsg' = [smsg EXCEPT ![m] = [pc |-> "done",
                                            result |-> "error"]]
            /\ UNCHANGED handed
    /\ UNCHANGED <<isConnected, messageQueue, prun, nruns, attempts, svcVars,
                   uiVars>>

\* lines 206-216, called by the 'ready' handler with isConnected set: with
\* an empty queue it returns; otherwise a run starts on the array that is
\* messageQueue now, with an empty failedMessages, and its first
\* iteration calls client.sendMessage for the first entry
processMessageQueue ==
    IF Len(heap[messageQueue]) = 0
    THEN UNCHANGED <<prun, nruns, attempts>>
    ELSE /\ nruns < MaxRuns
         /\ nruns' = nruns + 1
         /\ prun' = [prun EXCEPT ![nruns + 1] =
                        [IdleP EXCEPT !.pc = "sending", !.arr = messageQueue]]
         /\ attempts' = [attempts EXCEPT ![heap[messageQueue][1]] = @ + 1]

\* lines 44-50: the client's 'ready' event, which the client emits when
\* it comes up, at the start or after a disconnection
Ready ==
    /\ NoMicrotask
    /\ ~isConnected
    /\ isConnected' = TRUE
    /\ processMessageQueue
    /\ UNCHANGED <<heap, messageQueue, smsg, handed, everQueued, svcVars,
                   uiVars>>

\* lines 63-67 (and 57-61): the client's 'disconnected' event
Disconnected ==
    /\ NoMicrotask
    /\ isConnected
    /\ isConnected' = FALSE
    /\ UNCHANGED <<heap, messageQueue, prun, nruns, smsg, attempts, handed,
                   everQueued, svcVars, uiVars>>

\* lines 214-220 with 99-117: client.sendMessage of the run's current
\* entry has resolved (the entry goes to successfulMessages) or rejected
\* (sendMessage pushes the message to messageQueue and rethrows, the
\* entry goes to failedMessages); the iterator moves on
ProcessSendResult(r, ok) ==
    /\ NoMicrotask
    /\ prun[r].pc = "sending"
    /\ LET m == heap[prun[r].arr][prun[r].idx]
       IN IF ok
          THEN /\ handed' = [handed EXCEPT ![m] = @ + 1]
               /\ prun' = [prun EXCEPT ![r].pc = "next", ![r].idx = @ + 1,
                              ![r].successfulMessages = Append(@, m)]
               /\ UNCHANGED <<heap, everQueued>>
          ELSE /\ Len(heap[messageQueue]) < MaxQueue
               /\ Len(heap[r]) < MaxQueue
               /\ heap' = [heap EXCEPT ![messageQueue] = Append(@, m),
                                       ![r] = Append(@, m)]
               /\ everQueued' = everQueued \cup {m}
               /\ prun' = [prun EXCEPT ![r].pc = "next", ![r].idx = @ + 1]
               /\ UNCHANGED handed
    /\ UNCHANGED <<isConnected, messageQueue, nruns, smsg, attempts, svcVars,
                   uiVars>>

\* lines 214-232 with 92-99: the iterator reads the array's length again;
\* past the end the run ends and messageQueue becomes failedMessages;
\* otherwise sendMessage is called for the next entry: not connected, it
\* pushes the message to messageQueue and returns { queued: true }, which
\* the run takes for a success; connected, it calls client.sendMessage
ProcessNext(r) ==
    /\ prun[r].pc = "next"
    /\ IF prun[r].idx > Len(heap[prun[r].arr])
       THEN /\ messageQueue' = r
            /\ prun' = [prun EXCEPT ![r].pc = "done"]
            /\ UNCHANGED <<heap, everQueued, attempts>>
       ELSE LET m == heap[prun[r].arr][prun[r].idx]
            IN IF ~isConnected
               THEN /\ Len(heap[messageQueue]) < MaxQueue
                    /\ heap' = [heap EXCEPT ![messageQueue] = Append(@, m)]
                    /\ everQueued' = everQueued \cup {m}
                    /\ prun' = [prun EXCEPT ![r].idx = @ + 1,
                                   ![r].successfulMessages = Append(@, m)]
                    /\ UNCHANGED <<messageQueue, attempts>>
               ELSE /\ attempts' = [attempts EXCEPT ![m] = @ + 1]
                    /\ prun' = [prun EXCEPT ![r].pc = "sending"]
                    /\ UNCHANGED <<messageQueue, heap, everQueued>>
    /\ UNCHANGED <<isConnected, nruns, smsg, handed, svcVars, uiVars>>

NextQueue ==
    \/ \E m \in Msgs : sendMessage(m)
    \/ \E m \in Msgs : \E ok \in BOOLEAN : SendMessageResult(m, ok)
    \/ Ready
    \/ Disconnected
    \/ \E r \in RunIds : \E ok \in BOOLEAN : ProcessSendResult(r, ok)
    \/ \E r \in RunIds : ProcessNext(r)

SpecQueue == Init /\ [][NextQueue]_vars

\* --------------------------------------------- OTPVerification component
\* lines 17-30: a second passes; while the interval is set its callback
\* runs: setCountdown(prev => prev <= 1 ? (clearInterval(timer), 0)
\* : prev - 1)
Second ==
    /\ elapsed < MaxElapsed
    /\ elapsed' = elapsed + 1
    /\ IF timer
       THEN IF countdown <= 1
            THEN countdown' = 0 /\ timer' = FALSE
            ELSE countdown' = countdown - 1 /\ UNCHANGED timer
       ELSE UNCHANGED <<countdown, timer>>
    /\ UNCHANGED <<isResending, verificationStatus, verifyReq, svcVars,
                   waVars>>

\* lines 168-172: the resend button is disabled
resendDisabled ==
    countdown > 0 \/ isResending \/ verificationStatus = "verifying"

\* lines 91-94: a click on the resend button; resendOTP is awaited
handleResendOTP ==
    /\ ~resendDisabled
    /\ isResending' = TRUE
    /\ UNCHANGED <<countdown, timer, verificationStatus, elapsed, verifyReq,
                   svcVars, waVars>>

\* lines 94-102: resendOTP has resolved (the countdown is set to ten
\* minutes again) or rejected; isResending is cleared
ResendResult(ok) ==
    /\ isResending
    /\ countdown' = IF ok THEN COUNTDOWN_START ELSE countdown
    /\ isResending' = FALSE
    /\ UNCHANGED <<timer, verificationStatus, elapsed, verifyReq, svcVars,
                   waVars>>

\* line 149: the six inputs are disabled
inputDisabled == verificationStatus = "verifying"

\* lines 68-74: handleVerify is called with a code of six digits, by the
\* effect of an OTP_AUTO_FILL message (lines 32-42, auto) or by
\* handleOtpChange when the sixth input completes the code (lines 44-60,
\* which needs the inputs enabled); the status becomes 'verifying' and
\* verifyOTP is awaited. No state of the component is consulted first.
handleVerify(auto) ==
    /\ verifyReq.started < MaxVerify
    /\ auto \/ ~inputDisabled
    /\ verificationStatus' = "verifying"
    /\ verifyReq' = [verifyReq EXCEPT
                        !.started = @ + 1,
                        !.inFlight = @ + 1,
                        !.late = @ \/ verificationStatus
                                        \in {"verifying", "success"}]
    /\ UNCHANGED <<countdown, timer, isResending, elapsed, svcVars, waVars>>

\* lines 74-88: a verifyOTP request has resolved with success (the
\* service accepts the code of a session once), or without, or rejected;
\* on success onVerified is set to be called a second later
VerifyResult(ok) ==
    /\ verifyReq.inFlight > 0
    /\ ok => verifyReq.succeeded = 0
    /\ verificationStatus' = IF ok THEN "success" ELSE "error"
    /\ verifyReq' = [verifyReq EXCEPT
                        !.inFlight = @ - 1,
                        !.succeeded = IF ok THEN @ + 1 ELSE @,
                        !.timeouts = IF ok THEN @ + 1 ELSE @]
    /\ UNCHANGED <<countdown, timer, isResending, elapsed, svcVars, waVars>>

\* line 78: the timeout set on success fires and calls onVerified(result)
OnVerified ==
    /\ verifyReq.timeouts > 0
    /\ verifyReq' = [verifyReq EXCEPT !.timeouts = @ - 1,
                                      !.onVerified = @ + 1]
    /\ UNCHANGED <<countdown, timer, isResending, verificationStatus,
                   elapsed, svcVars, waVars>>

NextCountdown ==
    \/ Second
    \/ handleResendOTP
    \/ \E ok \in BOOLEAN : ResendResult(ok)
    \/ \E auto \in BOOLEAN : handleVerify(auto)
    \/ \E ok \in BOOLEAN : VerifyResult(ok)
    \/ OnVerified

SpecCountdown == Init /\ [][NextCountdown]_vars

\* ------------------------------------------------------ GmailManager
\* lines 51-53 and 29-32: sendEmail(emailData) is called and calls
\* initializeTransporter, which returns at once when this.transporter is
\* set (then line 71, sendMail is called on it and awaited) and awaits
\* oAuth2Client.getAccessToken otherwise
sendEmail(e) ==
    /\ ecall[e].pc = "idle"
    /\ \A f \in MailIds : f < e => ecall[f].pc # "idle"
    /\ ecall' = [ecall EXCEPT ![e] =
          IF transporter # 0
          THEN [@ EXCEPT !.pc = "sendMail", !.via = transporter,
                         !.unverified = transporter \notin verified]
          ELSE [@ EXCEPT !.pc = "getAccessToken"]]
    /\ UNCHANGED <<transporter, created, verified, coreVars, waVars, uiVars,
                   clusterVars>>

\* lines 32-47: getAccessToken has resolved: this.transporter is assigned
\* what createTransport returns and its verify() is awaited; or it has
\* rejected (lines 82-85: sendEmail logs and throws the error)
AccessTokenResult(e, ok) ==
    /\ ecall[e].pc = "getAccessToken"
    /\ IF ok
       THEN /\ created' = created + 1
            /\ transporter' = created + 1
            /\ ecall' = [ecall EXCEPT ![e].pc = "verify",
                                      ![e].made = created + 1]
       ELSE /\ ecall' = [ecall EXCEPT ![e].pc = "done",
                                      ![e].err = "TokenError"]
            /\ UNCHANGED <<transporter, created>>
    /\ UNCHANGED <<verified, coreVars, waVars, uiVars, clusterVars>>

\* lines 47-49: verify() of the transporter this call made has resolved,
\* and sendEmail goes on to line 71, sendMail on what this.transporter is
\* by then; or it has rejected
\* and sendEmail throws the error (lines 82-85). this.transporter is left
\* as it is either way.
VerifyTransporterResult(e, ok) ==
    /\ ecall[e].pc = "verify"
    /\ IF ok
       THEN /\ verified' = verified \cup {ecall[e].made}
            /\ ecall' = [ecall EXCEPT ![e].pc = "sendMail",
                                      ![e].via = transporter,
                                      ![e].unverified =
                                          transporter \notin verified']
       ELSE /\ ecall' = [ecall EXCEPT ![e].pc = "done",
                                      ![e].err = "VerifyError"]
            /\ UNCHANGED verified
    /\ UNCHANGED <<transporter, created, coreVars, waVars, uiVars,
                   clusterVars>>

\* lines 71-85: sendMail has resolved (the mail is logged as SENT and the
\* result returned) or rejected (logged as FAILED, the error thrown)
SendMailResult(e, ok) ==
    /\ ecall[e].pc = "sendMail"
    /\ ecall' = [ecall EXCEPT ![e].pc = "done",
                              ![e].err = IF ok THEN "Success"
                                         ELSE "SendError"]
    /\ UNCHANGED <<transporter, created, verified, coreVars, waVars, uiVars,
                   clusterVars>>

NextGmail ==
    \/ \E e \in MailIds : sendEmail(e)
    \/ \E e \in MailIds : \E ok \in BOOLEAN : AccessTokenResult(e, ok)
    \/ \E e \in MailIds : \E ok \in BOOLEAN : VerifyTransporterResult(e, ok)
    \/ \E e \in MailIds : \E ok \in BOOLEAN : SendMailResult(e, ok)

SpecGmail == Init /\ [][NextGmail]_vars

\* -------------------------------------------------- the primary process
\* lines 59-71: forkWorkers forks cpuCount workers, each with WORKER_ID
\* i + 1 in its environment, and attaches to each a 'message' listener
\* that calls handleWorkerMessage; lines 73-76 register the 'exit'
\* listener of the cluster
forkWorkers ==
    /\ primary = "start"
    /\ primary' = "forked"
    /\ workers' = [w \in WorkerIds |->
                     IF w <= cpuCount
                     THEN [state |-> "live", handler |-> TRUE,
                           WORKER_ID |-> w]
                     ELSE workers[w]]
    /\ nforked' = cpuCount
    /\ UNCHANGED <<nexits, wmsg, coreVars, waVars, uiVars, mailVars>>

\* lines 73-76: a worker has exited; the 'exit' listener of the cluster
\* calls cluster.fork() with no environment, and attaches nothing to the
\* worker it returns
WorkerExit(w) ==
    /\ primary = "forked"
    /\ nexits < MaxExits
    /\ workers[w].state = "live"
    /\ nexits' = nexits + 1
    /\ nforked' = nforked + 1
    /\ workers' = [workers EXCEPT
                      ![w].state = "dead",
                      ![nforked + 1] = [state |-> "live", handler |-> FALSE,
                                        WORKER_ID |-> 0]]
    /\ UNCHANGED <<primary, wmsg, coreVars, waVars, uiVars, mailVars>>

\* lines 69-71 and 121-133: a live worker sends a message of one of the
\* three types to the primary; handleWorkerMessage is called for it by
\* the 'message' listener of that worker, if it has one
WorkerMessage(w, type) ==
    /\ workers[w].state = "live"
    /\ wmsg' = [from |-> w, type |-> type, handled |-> workers[w].handler]
    /\ UNCHANGED <<primary, workers, nforked, nexits, coreVars, waVars,
                   uiVars, mailVars>>

NextCluster ==
    \/ forkWorkers
    \/ \E w \in WorkerIds : WorkerExit(w)
    \/ \E w \in WorkerIds : \E type \in MessageTypes : WorkerMessage(w, type)

SpecCluster == Init /\ [][NextCluster]_vars

\* ------------------------------------------------- the utility methods
\* a call of one utility method with an argument of the bounded input sets
InitMask ==
    /\ InitService
    /\ mask \in {[IdleM EXCEPT !.fn = "maskEmail", !.input = e] :
                    e \in EmailInputs}
            \cup {[IdleM EXCEPT !.fn = "maskPhoneNumber", !.input = ph] :
                    ph \in PhoneInputs}
            \cup {[IdleM EXCEPT !.fn = "generateOTP"]}

CallMaskEmail ==
    /\ mask.fn = "maskEmail" /\ ~mask.done
    /\ mask' = [mask EXCEPT !.output = maskEmail(mask.input), !.done = TRUE]
    /\ UNCHANGED <<opVars, extVars, now, storeVars, failedAttempts, tokens, vcall,
                   ncalls, clean, loginVars>>

CallMaskPhoneNumber ==
    /\ mask.fn = "maskPhoneNumber" /\ ~mask.done
    /\ mask' = [mask EXCEPT !.output = maskPhoneNumber(mask.input),
                            !.done = TRUE]
    /\ UNCHANGED <<opVars, extVars, now, storeVars, failedAttempts, tokens, vcall,
                   ncalls, clean, loginVars>>

\* lines 285-287: crypto.randomInt(100000, 999999).toString()
CallGenerateOTP ==
    /\ mask.fn = "generateOTP" /\ ~mask.done
    /\ \E n \in generateOTP :
          mask' = [mask EXCEPT !.output = toString(n), !.done = TRUE]
    /\ UNCHANGED <<opVars, extVars, now, storeVars, failedAttempts, tokens, vcall,
                   ncalls, clean, loginVars>>

NextMask == CallMaskEmail \/ CallMaskPhoneNumber \/ CallGenerateOTP

SpecMask == InitMask /\ [][NextMask]_vars

NextVerify ==
    \/ Tick
    \/ \E s \in SessionIds, ce \in generateOTP, cw \in generateOTP :
          register("alice", s, ce, cw)
    \/ \E c \in Callers, s \in SessionIds, k \in generateOTP, ch \in Channels :
          VerifyStart(c, s, k, ch)
    \/ \E c \in Callers : VerifyGetSession(c)
    \/ \E c \in Callers : VerifyCheckBlocked(c)
    \/ \E c \in Callers : VerifyComplete(c)
    \/ \E c \in Callers : VerifyTokens(c)
    \/ \E c \in Callers : VerifyRecordFailed(c)
    \/ \E c \in Callers : VerifyDone(c)

SpecVerify == Init /\ [][NextVerify]_vars

NextLogin ==
    \/ Tick
    \/ \E id \in Identities, good \in BOOLEAN : LoginCheckLocked(id, good)
    \/ LoginValidate
    \/ \E s \in SessionIds, ce \in generateOTP, cw \in generateOTP :
          LoginTwoFactor(s, ce, cw)
    \/ LoginTokens
    \/ LoginReset
    \/ LoginCatch
    \/ LoginDone

SpecLogin == Init /\ [][NextLogin]_vars

\* the operations of the service called one at a time: a call starts when
\* every earlier call has returned
Quiet ==
    /\ \A c \in Callers : vcall[c].pc = "idle"
    /\ lcall.pc = "idle" /\ scall.pc = "idle" /\ gcall.pc = "idle"
    /\ ncalls + nlogins + nops < MaxOps

NextSerial ==
    \/ Tick
    \/ \E u \in Identities, s \in SessionIds,
          ce \in generateOTP, cw \in generateOTP :
          Quiet /\ register(u, s, ce, cw)
    \/ \E c \in Callers, s \in SessionIds, k \in generateOTP, ch \in Channels :
          Quiet /\ VerifyStart(c, s, k, ch)
    \/ \E c \in Callers : VerifyGetSession(c)
    \/ \E c \in Callers : VerifyCheckBlocked(c)
    \/ \E c \in Callers : VerifyComplete(c)
    \/ \E c \in Callers : VerifyTokens(c)
    \/ \E c \in Callers : VerifyRecordFailed(c)
    \/ \E c \in Callers : VerifyDone(c)
    \/ \E id \in Identities, good \in BOOLEAN :
          Quiet /\ LoginCheckLocked(id, good)
    \/ LoginValidate
    \/ \E s \in SessionIds, ce \in generateOTP, cw \in generateOTP :
          LoginTwoFactor(s, ce, cw)
    \/ LoginTokens
    \/ LoginReset
    \/ LoginCatch
    \/ LoginDone
    \/ \E u \in Identities, s \in SessionIds, ch \in Channels,
          sent \in BOOLEAN : Quiet /\ SendOTP(u, s, ch, sent)
    \/ \E sent \in BOOLEAN : SendAdminCopy(sent)
    \/ SendStore
    \/ SendDone
    \/ \E u \in Identities, valid \in BOOLEAN : Quiet /\ GoogleExchange(u, valid)
    \/ \E s \in SessionIds, ce \in generateOTP : GoogleSendAdditional(s, ce)
    \/ GoogleDone

SpecSerial == Init /\ [][NextSerial]_vars

\* the same, with collaborators that can fail: the token issuer and the
\* security-event sink
NextFail ==
    \/ NextSerial
    \/ \E c \in Callers : VerifyTokensFail(c)
    \/ \E c \in Callers, again \in BOOLEAN : VerifyEmitFail(c, again)
    \/ \E again \in BOOLEAN : SendEmitFail(again)
    \/ LoginTokensFail
    \/ Quiet /\ \E u \in Identities, s \in SessionIds : SendOTPQueued(u, s)

SpecFail == Init /\ [][NextFail]_vars

\* ================================================================ claims
Done(c) == vcall[c].pc = "done"

\* C1 (as claimed): two verifyOTP calls made on a pending session with the
\* same correct code and overlapping in time, both returned before the
\* session expires, end with exactly one Success and one
\* SessionAlreadyTerminal, and the session gets tokens at most once.
C1_ExactlyOneWinner ==
    /\ \A s \in SessionIds : tokens[s] <= 1
    /\ ( /\ Done("a") /\ Done("b")
         /\ vcall["a"].sid = vcall["b"].sid
         /\ now <= expiresAt[vcall["a"].sid]
         /\ vcall["a"].pending /\ vcall["b"].pending
         /\ vcall["a"].ok /\ vcall["b"].ok
         /\ ~vcall["a"].solo /\ ~vcall["b"].solo )
       => {vcall["a"].err, vcall["b"].err} = {"Success", "SessionAlreadyTerminal"}

\* C2 (as claimed): a verifyOTP call made after a call on the session has
\* returned Success, and before the session expires, ends with
\* SessionAlreadyTerminal, mints no tokens and records nothing against the
\* session.
C2_TerminalIdempotent ==
    \A c \in Callers :
        (vcall[c].late /\ now <= expiresAt[vcall[c].sid]) =>
            /\ ~vcall[c].minted
            /\ ~vcall[c].recorded
            /\ Done(c) => vcall[c].err = "SessionAlreadyTerminal"

C4_FifthWrongCallLocks ==
    \A c \in Callers :
        ( /\ Done(c) /\ vcall[c].solo /\ vcall[c].look = "ok"
          /\ clean = {vcall[c].sid}
          /\ vcall[c].latest
          /\ \A d \in Callers \ {c} : vcall[d].pc = "idle" ) =>
            /\ (ncalls = MaxAttempts /\ ~vcall[c].ok) =>
                  /\ isOTPBlocked(vcall[c].sid)
                  /\ vcall[c].err = "TooManyAttempts"
            /\ (ncalls = MaxAttempts + 1 /\ vcall[c].ok) =>
                  vcall[c].err # "Success"

\* C5: failedAttempts of a session changes only when a call that found a
\* mismatch (it is at "record") records it, and then by exactly one per
\* such call, also when two such calls are in flight together.
C5_FailedCountByOnePerMismatch ==
    [][\A s \in SessionIds :
          failedAttempts'[s] = failedAttempts[s] +
              Cardinality({c \in Callers : /\ vcall[c].sid = s
                                           /\ vcall[c].pc = "record"
                                           /\ vcall'[c].pc # "record"})]_vars

\* C5 witness: two overlapping calls with wrong codes have both returned
\* and the session counts two failures.
C5_Witness ==
    /\ Done("a") /\ Done("b")
    /\ vcall["a"].sid = vcall["b"].sid
    /\ vcall["a"].recorded /\ vcall["b"].recorded
    /\ ~vcall["a"].solo /\ ~vcall["b"].solo
    /\ failedAttempts[vcall["a"].sid] = 2

\* C6 (as claimed): when a verifyOTP call that overlapped no other call on
\* its session returns Success, and no call was made since, the session's
\* failure counter is zero, and when a login returns Success the identity's
\* failed-login counter is zero.
C6_CountersResetOnSuccess ==
    /\ \A c \in Callers :
          ( /\ Done(c) /\ vcall[c].solo /\ vcall[c].latest
            /\ vcall[c].err = "Success" ) =>
              failedAttempts[vcall[c].sid] = 0
    /\ (lcall.pc = "done" /\ lcall.err = "Success") =>
              failedLogins[lcall.id] = 0

C8_UnknownSessionRejected ==
    /\ \A c \in Callers :
          vcall[c].look = "notfound" =>
              /\ Done(c) /\ vcall[c].err = "InvalidSession"
              /\ ~vcall[c].compared /\ ~vcall[c].recorded /\ ~vcall[c].minted
    /\ \A s \in SessionIds :
          status[s] = "NONE" => failedAttempts[s] = 0 /\ tokens[s] = 0

\* C8 witness: a call on a session id that was never created has returned.
C8_Witness ==
    \E c \in Callers :
        /\ Done(c) /\ vcall[c].look = "notfound"
        /\ vcall[c].sid = MaxSessions + 1

\* C9: a login call on a locked identity never evaluates the credentials
\* and never mints tokens; it ends with 'Account temporarily locked'.
C9_LockedLoginRejected ==
    lcall.locked =>
        /\ ~lcall.validated
        /\ ~lcall.minted
        /\ lcall.pc \in {"catch", "done"}
        /\ lcall.err = "AccountLocked"

\* C9 witness: a login with good credentials on a locked identity returned.
C9_Witness ==
    lcall.pc = "done" /\ lcall.locked /\ lcall.good

\* C10: login mints tokens only for an unlocked identity whose credentials
\* validated and that has no second factor; with a second factor it starts
\* a verification session and returns its handle, and mints nothing.
C10_TokensOnlyWithoutSecondFactor ==
    /\ lcall.minted =>
          ~lcall.locked /\ lcall.validated /\ ~twoFactorEnabled[lcall.id]
    /\ (lcall.pc = "done" /\ lcall.err = "Success") => lcall.minted
    /\ (lcall.pc = "done" /\ lcall.validated /\ twoFactorEnabled[lcall.id]) =>
          /\ lcall.err = "TwoFactorStarted"
          /\ lcall.session \in SessionIds
          /\ status[lcall.session] # "NONE"

\* C10 witness: a login of a user with a second factor has returned the
\* handle of a new verification session.
C10_Witness ==
    /\ lcall.pc = "done" /\ lcall.err = "TwoFactorStarted"
    /\ twoFactorEnabled[lcall.id]

\* C11: a login call whose credentials did not validate records exactly one
\* failed login for its identifier on the way out, and when that makes the
\* count reach the threshold the identifier is locked from then on.
C11_FailedLoginRecorded ==
    [][(/\ lcall.pc = "catch" /\ lcall.err = "InvalidCredentials"
        /\ lcall'.pc = "done") =>
          /\ failedLogins'[lcall.id] = failedLogins[lcall.id] + 1
          /\ failedLogins'[lcall.id] >= LoginThreshold =>
                now' < lockedAccounts'[lcall.id]]_vars

\* C11 witness: the login that failed validation for the fifth time has
\* returned and its identifier is locked.
C11_Witness ==
    /\ lcall.pc = "done" /\ lcall.err = "InvalidCredentials"
    /\ failedLogins[lcall.id] = LoginThreshold
    /\ isAccountLocked(lcall.id)

\* C12: a handleGoogleCallback call that returns a result has opened a
\* verification session and delivered a code to the profile's e-mail
\* address first; the result asks for the additional step and no tokens
\* were issued.
C12_GoogleCallbackForcesStepUp ==
    (gcall.pc = "done" /\ gcall.err = "Success") =>
        /\ gcall.otpSent /\ gcall.requiresAdditionalAuth /\ ~gcall.minted
        /\ gcall.session \in SessionIds
        /\ status[gcall.session] # "NONE"
        /\ delivered[gcall.session]["email"] # Void
        /\ tokens[gcall.session] = 0

\* C12 witness: a callback with a valid code has returned its result.
C12_Witness ==
    gcall.pc = "done" /\ gcall.err = "Success" /\ gcall.otpSent

C14_TokenFailureAbortsVerify ==
    \A c \in Callers :
        (Done(c) /\ vcall[c].err = "SigningKeyUnavailable") =>
            ~(status[vcall[c].sid] = "VERIFIED" /\ tokens[vcall[c].sid] = 0)

\* the log entries of the calls that are in flight or have just returned
LoggedEvents ==
    UNION ( {{vcall[c].events[i] : i \in 1..Len(vcall[c].events)} :
                c \in Callers}
            \cup {{f.events[i] : i \in 1..Len(f.events)} :
                     f \in {lcall, rcall, scall, gcall}} )

\* C15 (as claimed): no log entry carries the e-mail address or the phone
\* number of a user as it is, or a code.
C15_EventsCarryMaskedOnly ==
    \A e \in LoggedEvents : \A d \in e.data :
        /\ d.value \notin {emailOf[u] : u \in Identities}
        /\ d.value \notin {phoneOf[u] : u \in Identities}
        /\ d.field # "otpCode"

\* C16 (as claimed): a verifyOTP call that has issued its tokens, and a
\* send that has stored its code, return success whatever happens to
\* the log entry.
C16_EmitFailureDoesNotFailFlow ==
    /\ \A c \in Callers :
          (Done(c) /\ vcall[c].minted) => vcall[c].err = "Success"
    /\ (scall.pc = "done" /\ scall.stored) => scall.err = "Success"

C21_AtMostOneRetry ==
    \A m \in Msgs : attempts[m] <= 2

\* the entries of an array
Entries(a) == {heap[a][i] : i \in 1..Len(heap[a])}

\* the entries a run still has to visit
Remaining(p, h) == Len(h[p.arr]) - (p.idx - 1)

\* C24 (as claimed): the sessionId in the result of handleGoogleCallback is
\* the session that was opened for the additional verification: the
\* store has it, with the code that was delivered.
C24_HandleIsStepUpSession ==
    (gcall.pc = "done" /\ gcall.err = "Success") =>
        /\ gcall.sessionId = gcall.session
        /\ status[gcall.sessionId] # "NONE"
        /\ codes[gcall.sessionId]["email"] =
              delivered[gcall.sessionId]["email"]

\* C25 (as claimed): a processMessageQueue run ends, because every
\* iteration of its loop leaves fewer entries to visit than there were
\* before it.
C25_QueueRunTerminates ==
    [][\A r \in RunIds :
          (prun[r].pc # "idle" /\ prun'[r].idx # prun[r].idx) =>
              Remaining(prun'[r], heap') < Remaining(prun[r], heap)]_vars

\* C26 (as claimed): when no processMessageQueue run and no sendMessage
\* call is in flight, every message that was ever pushed to messageQueue
\* has been handed to the client or is in messageQueue.
C26_NoQueuedMessageLost ==
    ((\A r \in RunIds : prun[r].pc \in {"idle", "done"})
       /\ (\A m \in Msgs : smsg[m].pc # "sending")) =>
        \A m \in everQueued : handed[m] > 0 \/ m \in Entries(messageQueue)

\* C27 (as claimed): a message submitted once is handed to the client
\* successfully at most once.
C27_HandedAtMostOnce ==
    \A m \in Msgs : handed[m] <= 1

\* C22 (as claimed): a send that did not deliver its code to the user
\* has failed and has stored nothing.
C22_FailedDeliveryLeavesSession ==
    (scall.pc = "done" /\ ~scall.sentToUser) =>
        /\ scall.err # "Success"
        /\ ~scall.stored

\* C23 (as claimed): the session expires COUNTDOWN_START seconds after the
\* component was mounted, whatever is resent; the countdown never shows
\* more than the time left until then, and the resend button is disabled
\* before then.
C23_CountdownMirrorsExpiry ==
    /\ countdown <= Max(0, COUNTDOWN_START - elapsed)
    /\ elapsed < COUNTDOWN_START => resendDisabled

\* C28 (as claimed): a login call that fails for another reason than the
\* credentials leaves the failed-login counters as they were.
C28_OnlyBadCredentialsCounted ==
    [][(lcall.pc = "catch" /\ lcall'.pc = "done"
           /\ lcall.err # "InvalidCredentials") =>
          failedLogins' = failedLogins]_vars

\* C29 (as claimed): when a send has returned or thrown, its code was
\* delivered to the user exactly if it was stored.
C29_DeliveredIffStored ==
    scall.pc = "done" => (scall.sentToUser <=> scall.stored)

\* C30 (as claimed): a positive countdown reaches 0, because while it is
\* positive the interval that decrements it is set.
C30_CountdownKeepsRunning ==
    countdown > 0 => timer

\* C31 (as claimed): at most one verifyOTP request of the component is in
\* flight, no request starts while the status is 'verifying' or after it
\* became 'success', and onVerified is called at most once.
C31_OneVerificationInFlight ==
    /\ verifyReq.inFlight <= 1
    /\ ~verifyReq.late
    /\ verifyReq.timeouts + verifyReq.onVerified <= 1

\* C32 (as claimed): every sendMail call of sendEmail is made on a
\* transporter whose verify() has resolved, and createTransport is called
\* at most once, however the sendEmail calls overlap.
C32_OnlyVerifiedTransporterSends ==
    /\ \A e \in MailIds : ~ecall[e].unverified
    /\ created <= 1

\* the live workers of the cluster
LiveWorkers == {w \in WorkerIds : workers[w].state = "live"}

\* C33 (as claimed): once the primary has forked, there are cpuCount live
\* workers, each has the message listener of the primary and a WORKER_ID,
\* and every message of the three types was handled.
C33_EveryWorkerHandled ==
    primary = "forked" =>
        /\ Cardinality(LiveWorkers) = cpuCount
        /\ \A w \in LiveWorkers :
              workers[w].handler /\ workers[w].WORKER_ID # 0
        /\ wmsg # NoMessage => wmsg.handled

\* the position of the only "@" of an address with exactly one
AtSign(email) == CHOOSE i \in 1..Len(email) : email[i] = "@"

\* C18: for an address local@domain (one "@", local part not empty)
\* maskEmail returns the first character of local, "***", the last
\* character of local, "@" and the domain.
C18_MaskEmailFirstAndLast ==
    ( /\ mask.fn = "maskEmail" /\ mask.done
      /\ Cardinality({i \in 1..Len(mask.input) : mask.input[i] = "@"}) = 1
      /\ AtSign(mask.input) > 1 ) =>
        LET at == AtSign(mask.input)
        IN mask.output =
              <<mask.input[1]>> \o Stars \o <<mask.input[at - 1]>> \o <<"@">>
              \o SubSeq(mask.input, at + 1, Len(mask.input))

\* C18 witness: an address with a local part of two characters whose ends
\* differ, and a domain, has been masked.
C18_Witness ==
    /\ mask.fn = "maskEmail" /\ mask.done
    /\ mask.input = <<"a", "b", "@", "a">>

\* C19: the masked form of a phone number is its first four digits, "***"
\* and its last three digits (fewer when it is shorter), and two numbers
\* of one length that agree on those positions have the same masked form.
C19_MaskPhoneFirstFourLastThree ==
    (mask.fn = "maskPhoneNumber" /\ mask.done) =>
        LET p == mask.input
            n == Len(p)
            shown == {i \in 1..n : i <= 4 \/ i > n - 3}
        IN /\ mask.output = SubSeq(p, 1, Min(4, n)) \o Stars
                             \o SubSeq(p, Max(n - 3, 0) + 1, n)
           /\ \A q \in PhoneInputs :
                 (Len(q) = n /\ \A i \in shown : q[i] = p[i]) =>
                     maskPhoneNumber(q) = mask.output

\* C19 witness: a number of five digits, shorter than the seven that are
\* shown, has been masked.
C19_Witness ==
    /\ mask.fn = "maskPhoneNumber" /\ mask.done
    /\ Len(mask.input) = 5

\* C20 (as claimed): generateOTP returns a string of six digits, and every
\* value from OTP_MIN to OTP_MAX, both included, is a possible result.
C20_WholeClosedRange ==
    /\ (mask.fn = "generateOTP" /\ mask.done) => Len(mask.output) = 6
    /\ \A n \in CodeSample :
          (OTP_MIN <= n /\ n <= OTP_MAX) => n \in generateOTP

====
